---- MODULE Spec2Model ----
(***************************************************************************)
(* RingBuffer (yarl/components/memories/ring_buffer.py): a fixed-capacity  *)
(* circular record store whose operations are functions that build         *)
(* TensorFlow ops: insert, get_records, get_episodes and their helper      *)
(* read_records.                                                           *)
(*                                                                         *)
(* Each operation is modelled as one call of its function as the source    *)
(* has it.  A call creates ops line by line (`built`, with the data        *)
(* dependencies `deps` among them) until it returns or a line raises; the  *)
(* variables of the buffer change only when ops that assign them are       *)
(* built and run.  As written, every one of the four functions raises      *)
(* before it returns:                                                      *)
(*   insert        line 74 under Python 3 (records.keys()[0] subscripts a  *)
(*                 view), line 76 under Python 2 (tf.range has no          *)
(*                 parameter `stop`);                                      *)
(*   read_records  line 138 (iterating the registry yields its keys, and   *)
(*                 a key does not unpack into name, variable);             *)
(*   get_records   line 151, through read_records;                         *)
(*   get_episodes  line 154 without episode semantics (num_episodes was    *)
(*                 never set), else line 163, through read_records.        *)
(*                                                                         *)
(* A record has the two fields "value" and "terminal".  The value of the   *)
(* i-th record ever handed to insert is i, so that records can be told     *)
(* apart; 0 is the initializer of every storage cell.                      *)
(*                                                                         *)
(* Exploration._graph_fn_pick (rlgraph/components/explorations/            *)
(* exploration.py) is a pure function of its arguments and of the random   *)
(* actions it draws; it is checked under SpecPick, whose initial states    *)
(* draw the arguments and whose one action applies the function.           *)
(***************************************************************************)
EXTENDS Integers, Sequences, FiniteSets, TLC

\* ---------------------------------------------------------------- bounds
MaxCapacity == 3      \* capacities 1..MaxCapacity are constructed
MaxBatch    == 4      \* largest batch handed to insert (exceeds MaxCapacity)
MaxTotal    == 4      \* records handed to insert over one behaviour
MaxRequest  == 4      \* largest num_records asked of get_records
MaxEpisodes == 2      \* largest num_episodes asked of get_episodes
MaxMismatch == 1      \* largest difference between the lengths of a batch's tensors
MaxIndices  == 2      \* most indices handed to read_records
MaxPickBatch  == 2    \* largest batch of actions handed to pick
NumCategories == 2    \* num_categories of the action space

\* --------------------------------------------------------------- helpers
\* The record space: every record has these keys.
Fields == {"value", "terminal"}

\* The interpreters the module supports (its __future__ imports).
PythonVersions == {2, 3}

\* ----------------------------------------------------------------- state
VARIABLES
    capacity,               \* constructor argument
    episode_semantics,      \* constructor argument
    python,                 \* major version of the interpreter
    record_registry,        \* key -> storage variable (capacity cells)
    index,                  \* variable "index"
    size,                   \* variable "size"
    num_episodes,           \* variable "num-episodes"
    episode_indices,        \* variable "episode-indices"
    last_op,                \* the function called last, "none" before any call
    records,                \* the batch handed to the last insert
    arg,                    \* argument of the last read call
    built,                  \* ops the last call created before it ended
    deps,                   \* data dependencies among these ops
    result,                 \* "ok", or the exception the last call raised
    raised_at,              \* source line that raised, 0 if none
    out,                    \* the records the last read call returned
    hist,                   \* terminal flag of every record handed to insert
                            \* in a batch whose tensors have one length
    non_explore_behavior,   \* Exploration: constructor argument
    use_exploration,        \* pick argument: a plain bool or a bool tensor
    epsilon_decisions,      \* pick argument: one bool per batch item
    sample_deterministic,   \* pick argument: one action per batch item
    sample_stochastic,      \* pick argument: one action per batch item
    random_actions,         \* the actions tf.random_uniform drew in pick
    picked_actions,         \* the actions pick returned
    pick_status             \* "unused", "called" or "returned"

bufvars == <<record_registry, index, size, num_episodes, episode_indices>>
callvars == <<last_op, records, arg, built, deps, result, raised_at, out>>
pickvars == <<non_explore_behavior, use_exploration, epsilon_decisions,
              sample_deterministic, sample_stochastic, random_actions,
              picked_actions, pick_status>>
buffervars == <<capacity, episode_semantics, python, bufvars, callvars, hist>>
vars == <<buffervars, pickvars>>

\* __init__ and create_variables: every variable is initialised to 0.
InitBuffer ==
    /\ capacity \in 1..MaxCapacity
    /\ episode_semantics \in BOOLEAN
    /\ python \in PythonVersions
    /\ record_registry = [key \in Fields |-> [p \in 0..(capacity - 1) |-> 0]]
    /\ index = 0
    /\ size = 0
    /\ num_episodes = 0
    /\ episode_indices = [p \in 0..(capacity - 1) |-> 0]
    /\ last_op = "none"
    /\ records = [key \in Fields |-> <<>>]
    /\ arg = 0
    /\ built = {}
    /\ deps = {}
    /\ result = "ok"
    /\ raised_at = 0
    /\ out = [key \in Fields |-> <<>>]
    /\ hist = <<>>

\* An Exploration with the constructor's default non_explore_behavior and
\* get_action's default use_exploration, on which pick is never called.
PickUnused ==
    /\ non_explore_behavior = "max-likelihood"
    /\ use_exploration = [kind |-> "bool", value |-> TRUE]
    /\ epsilon_decisions = <<>>
    /\ sample_deterministic = <<>>
    /\ sample_stochastic = <<>>
    /\ random_actions = <<>>
    /\ picked_actions = <<>>
    /\ pick_status = "unused"

Init == InitBuffer /\ PickUnused

\* ----------------------------------------------------------------- insert
\* The terminal tensors a batch of n records can come with (m entries).
TerminalTensors(n, m) ==
    IF m = n THEN [1..n -> {0, 1}] ELSE {[j \in 1..m |-> 0]}

\* Line at which _computation_insert raises TypeError: records.keys()[0] at
\* line 74 under Python 3; under Python 2 that is the first key and line 76
\* calls tf.range with the keyword `stop`, which tf.range does not have.
InsertRaisedAt == IF python = 3 THEN 74 ELSE 76

\* The ops created before that line raises: none under Python 3; under
\* Python 2 num_records (tf.shape of the first key, line 74), index (the
\* read of line 75) and the sum index + num_records (argument of line 76).
InsertBuilt == IF python = 3 THEN {} ELSE {"num_records", "index", "add"}
InsertDeps ==
    IF python = 3 THEN {} ELSE {<<"num_records", "add">>, <<"index", "add">>}

\* The batches handed to insert: n records, numbered on from the records
\* handed over so far, with a terminal tensor of m entries.
InsertArguments ==
    \E n \in 1..MaxBatch : \E m \in (n - MaxMismatch)..(n + MaxMismatch) :
      \E term \in TerminalTensors(n, m) :
         /\ Len(hist) + n <= MaxTotal
         /\ records' = [key \in Fields |->
                           IF key = "value"
                           THEN [j \in 1..n |-> Len(hist) + j]
                           ELSE term]
         /\ hist' = IF m = n THEN hist \o term ELSE hist

\* An insert that returns its no-op although none of its writes was built.
InsertReportsComplete ==
    /\ InsertArguments
    /\ last_op' = "insert"
    /\ arg' = 0
    /\ built' = InsertBuilt \cup {"no_op"}
    /\ deps' = InsertDeps
    /\ result' = "ok"
    /\ raised_at' = 0
    /\ out' = [key \in Fields |-> <<>>]
    /\ UNCHANGED <<pickvars, capacity, episode_semantics, python, bufvars>>

\* An insert that raises only after it has added the batch's terminal flags
\* to num_episodes, without taking off the episodes it evicts.
InsertCountsTerminals ==
    /\ InsertArguments
    /\ last_op' = "insert"
    /\ arg' = 0
    /\ built' = InsertBuilt
    /\ deps' = InsertDeps
    /\ result' = "TypeError"
    /\ raised_at' = InsertRaisedAt
    /\ out' = [key \in Fields |-> <<>>]
    /\ num_episodes' = num_episodes
          + Cardinality({j \in DOMAIN records'["terminal"] : records'["terminal"][j] = 1})
    /\ UNCHANGED <<pickvars, capacity, episode_semantics, python,
                   record_registry, index, size, episode_indices>>

\* _computation_insert(records).
Insert ==
    /\ InsertArguments
    /\ last_op' = "insert"
    /\ arg' = 0
    /\ built' = InsertBuilt
    /\ deps' = InsertDeps
    /\ result' = "TypeError"
    /\ raised_at' = InsertRaisedAt
    /\ out' = [key \in Fields |-> <<>>]
    /\ UNCHANGED <<pickvars, capacity, episode_semantics, python, bufvars>>

\* ------------------------------------------------------------- the reads
\* The index tensors handed to read_records.
IndexTensors == UNION {[1..l -> 0..(capacity - 1)] : l \in 0..MaxIndices}

\* read_records(indices): `for name, variable in self.record_registry`
\* iterates the keys of the registry, and unpacking the first key raises
\* ValueError before any variable is read.
ReadRecords ==
    /\ \E indices \in IndexTensors : arg' = indices
    /\ last_op' = "read_records"
    /\ built' = {}
    /\ deps' = {}
    /\ result' = "ValueError"
    /\ raised_at' = 138
    /\ out' = [key \in Fields |-> <<>>]
    /\ UNCHANGED <<pickvars, capacity, episode_semantics, python, bufvars,
                   records, hist>>

\* The ops _computation_get_records creates in lines 143-148.
GetRecordsBuilt == {"stored_records", "index", "available_records", "indices"}
GetRecordsDeps ==
    {<<"stored_records", "available_records">>,
     <<"index", "indices">>, <<"available_records", "indices">>}

\* _computation_get_records(num_records): the call of read_records at
\* line 151 raises.
GetRecords ==
    /\ \E n \in 0..MaxRequest : arg' = n
    /\ last_op' = "get_records"
    /\ built' = GetRecordsBuilt
    /\ deps' = GetRecordsDeps
    /\ result' = "ValueError"
    /\ raised_at' = 138
    /\ out' = [key \in Fields |-> <<>>]
    /\ UNCHANGED <<pickvars, capacity, episode_semantics, python, bufvars,
                   records, hist>>

\* The ops _computation_get_episodes creates in lines 154-161.
GetEpisodesBuilt ==
    {"stored_episodes", "available_episodes", "start", "limit", "indices"}
GetEpisodesDeps ==
    {<<"stored_episodes", "available_episodes">>,
     <<"stored_episodes", "start">>, <<"available_episodes", "start">>,
     <<"stored_episodes", "limit">>, <<"start", "limit">>,
     <<"start", "indices">>, <<"limit", "indices">>}

\* The error the call raises: without episode semantics self.num_episodes
\* was never set (lines 43-46), with them read_records raises (line 163).
GetEpisodesError == IF ~episode_semantics THEN "AttributeError" ELSE "ValueError"
GetEpisodesRaisedAt == IF ~episode_semantics THEN 154 ELSE 138

\* _computation_get_episodes(num_episodes).
GetEpisodes ==
    /\ \E k \in 0..MaxEpisodes : arg' = k
    /\ last_op' = "get_episodes"
    /\ built' = IF episode_semantics THEN GetEpisodesBuilt ELSE {}
    /\ deps' = IF episode_semantics THEN GetEpisodesDeps ELSE {}
    /\ result' = GetEpisodesError
    /\ raised_at' = GetEpisodesRaisedAt
    /\ out' = [key \in Fields |-> <<>>]
    /\ UNCHANGED <<pickvars, capacity, episode_semantics, python, bufvars,
                   records, hist>>

Next ==
    \/ Insert
    \/ ReadRecords
    \/ GetRecords
    \/ GetEpisodes

Spec == Init /\ [][Next]_vars

\* ------------------------------------------------- Exploration: pick
\* The actions of the action space: IntBox with num_categories categories.
Actions == 0..(NumCategories - 1)

\* The values use_exploration can take: an actual bool or a bool tensor.
UseExploration == [kind : {"bool", "tensor"}, value : BOOLEAN]

\* __init__ with an epsilon_spec, and the arguments of one get_action call:
\* the epsilon decisions and both samples have one entry per batch item.
InitPick ==
    /\ InitBuffer /\ capacity = 1 /\ ~episode_semantics /\ python = 3
    /\ non_explore_behavior \in {"max-likelihood", "sample", "random"}
    /\ use_exploration \in UseExploration
    /\ \E b \in 1..MaxPickBatch :
          /\ epsilon_decisions \in [1..b -> BOOLEAN]
          /\ sample_deterministic \in [1..b -> Actions]
          /\ sample_stochastic \in [1..b -> Actions]
    /\ random_actions = <<>>
    /\ picked_actions = <<>>
    /\ pick_status = "called"

\* batch_size = tf.shape(sample_stochastic)[0].
batch_size == Len(sample_stochastic)

\* tf.random_uniform(shape=(batch_size,), maxval=num_categories, dtype=int).
RandomUniform(b) == [1..b -> Actions]

\* tf.logical_and(x, y) with the scalar x broadcast over y.
LogicalAnd(x, y) == [j \in DOMAIN y |-> x /\ y[j]]

\* tf.where(condition, x, y): x where the condition holds, else y.
Where(condition, x, y) == [j \in DOMAIN condition |-> IF condition[j] THEN x[j] ELSE y[j]]

\* The condition handed to tf.where.
PickCondition ==
    IF use_exploration.kind = "bool"
    THEN epsilon_decisions
    ELSE LogicalAnd(use_exploration.value, epsilon_decisions)

\* The y argument handed to tf.where.
NonExploreActions ==
    IF non_explore_behavior = "max-likelihood"
    THEN sample_deterministic
    ELSE sample_stochastic

\* _graph_fn_pick(use_exploration, epsilon_decisions, sample_deterministic,
\*                sample_stochastic).
Pick ==
    /\ pick_status = "called"
    /\ \E drawn \in RandomUniform(batch_size) :
          /\ random_actions' = drawn
          /\ picked_actions' = Where(PickCondition, drawn, NonExploreActions)
    /\ pick_status' = "returned"
    /\ UNCHANGED <<buffervars, non_explore_behavior, use_exploration,
                   epsilon_decisions, sample_deterministic, sample_stochastic>>

NextPick == Pick

SpecPick == InitPick /\ [][NextPick]_vars

\* ---------------------------------------------------------------- claims
Min(a, b) == IF a < b THEN a ELSE b

\* The values of the last n records handed to insert, oldest first.
LastInserted(n) == [j \in 1..n |-> Len(hist) - n + j]

\* The number of records a buffer holds after Len(hist) records were inserted.
Present == Min(Len(hist), capacity)

\* The slot the i-th record inserted into a fresh buffer is written to.
Slot(i) == (i - 1) % capacity

\* The terminal-flagged records among the Present most recent, oldest first.
PresentTerminals ==
    SelectSeq([j \in 1..Present |-> Len(hist) - Present + j],
              LAMBDA i : hist[i] = 1)

\* The last call was an insert of a batch whose tensors have one length.
InsertCalled ==
    last_op = "insert" /\ Len(records["terminal"]) = Len(records["value"])

\* tf.reduce_sum over a rank-1 tensor.
RECURSIVE ReduceSum(_)
ReduceSum(s) == IF s = <<>> THEN 0 ELSE s[1] + ReduceSum(Tail(s))

\* The pairs (a, b) such that op b depends, directly or not, on op a.
RECURSIVE Closure(_)
Closure(R) ==
    LET step == R \cup {<<p[1][1], p[2][2]>> : p \in {q \in R \X R : q[1][2] = q[2][1]}}
    IN  IF step = R THEN R ELSE Closure(step)

\* Op a executes before op b in every schedule of the ops built.
Ordered(a, b) == {a, b} \subseteq built /\ <<a, b>> \in Closure(deps)

\* C1: after inserts into a fresh buffer totalling at most capacity records,
\* get_records(n) with 1 <= n <= size returns exactly the last n inserted
\* records, oldest first (which are pairwise distinct).
C1_RecentAreLastInserted ==
    (last_op = "get_records" /\ Len(hist) <= capacity
        /\ 1 <= arg /\ arg <= Len(hist))
    => /\ result = "ok"
       /\ out["value"] = LastInserted(arg)
       /\ out["terminal"] = [j \in 1..arg |-> hist[Len(hist) - arg + j]]

\* C2: after more than capacity records were inserted, get_records(capacity)
\* returns exactly the last capacity inserted records in insertion order.
C2_OverwriteKeepsLastCapacity ==
    (last_op = "get_records" /\ Len(hist) > capacity /\ arg = capacity)
    => /\ result = "ok"
       /\ out["value"] = LastInserted(capacity)

\* C3: 0 <= size <= capacity, every insert completes, and after inserts
\* into a fresh buffer that inserted m records in total size = min(m, capacity).
C3_SizeSaturates ==
    /\ 0 <= size /\ size <= capacity
    /\ InsertCalled => result = "ok"
    /\ size = Min(Len(hist), capacity)

\* C4: after every completed insert, for every i in [0, size) the slot
\* (index - 1 - i) mod capacity holds the i-th most recently inserted
\* record, in all its fields.
C4_CircularPositions ==
    InsertCalled
    => /\ result = "ok"
       /\ \A i \in 0..(Present - 1) :
             /\ record_registry["value"][(index - 1 - i) % capacity] = Len(hist) - i
             /\ record_registry["terminal"][(index - 1 - i) % capacity]
                   = hist[Len(hist) - i]

\* C5: with episode semantics, after completed inserts episode_indices
\* [0 .. num_episodes) lists the slots of the terminal-flagged records still
\* present, each once, in insertion order.
C5_EpisodeIndicesListTerminals ==
    (episode_semantics /\ InsertCalled)
    => /\ result = "ok"
       /\ num_episodes = Len(PresentTerminals)
       /\ \A j \in 1..Len(PresentTerminals) :
             episode_indices[j - 1] = Slot(PresentTerminals[j])

\* The slots an insert of the batch records' writes, from the index before it.
Destination(j) == (index + j - 1) % capacity
Destinations == {Destination(j) : j \in 1..Len(records'["value"])}

\* The terminal-flagged records the insert overwrites, each slot once.
Evicted == Cardinality({p \in Destinations : record_registry["terminal"][p] = 1})

\* A step that is an insert of a batch whose tensors have one length.
InsertStep ==
    last_op' = "insert" /\ Len(records'["terminal"]) = Len(records'["value"])

\* C6: with episode semantics, every insert sets num_episodes to the old
\* num_episodes - evicted + inserted, evicted counted from the contents
\* before the overwrite, each slot once, and inserted being the number of
\* terminal flags in the batch.
C6_NumEpisodesUpdate ==
    [][(episode_semantics /\ InsertStep)
       => /\ result' = "ok"
          /\ num_episodes' = num_episodes - Evicted + ReduceSum(records'["terminal"])]_vars

\* C7: get_episodes(k) with available = min(k, num_episodes) >= 1 returns,
\* in chronological order, the records from the one after the boundary
\* terminal (from position 0 when available = num_episodes) up to and
\* including the last terminal record.  Stated for buffers that have not
\* wrapped, where the record in slot p is record p + 1.
C7_EpisodesAreComplete ==
    LET tracked == Len(PresentTerminals)
        available == Min(arg, tracked)
        start == IF available = tracked THEN 0
                 ELSE PresentTerminals[tracked - available]
        end == PresentTerminals[tracked]
    IN  (last_op = "get_episodes" /\ episode_semantics /\ Len(hist) <= capacity
            /\ available >= 1)
        => /\ result = "ok"
           /\ out["value"] = [j \in 1..(end - start) |-> start + j]

\* C8: get_records(n) with n > size returns exactly the size records
\* present, each once, and never an error; nothing when size = 0.
C8_RecentBeyondSize ==
    (last_op = "get_records" /\ arg > Present)
    => /\ result = "ok"
       /\ out["value"] = LastInserted(Present)

\* C9: get_episodes(k) returns an empty result, and no error, whenever
\* min(k, num_episodes) = 0.
C9_NoEpisodesGivesEmpty ==
    (last_op = "get_episodes" /\ episode_semantics
        /\ Min(arg, Len(PresentTerminals)) = 0)
    => /\ result = "ok"
       /\ out = [key \in Fields |-> <<>>]

C11_FlagsReadBeforeOverwrite ==
    InsertCalled => Ordered("insert_terminal_slice", "record_updates/terminal")

\* The assignments an insert with episode semantics collects in index_updates.
EpisodeAssignments == {"shift", "append", "assign_num_episodes"}
IndexAssignments == {"assign_index", "assign_size"}

\* C12: within an insert with episode semantics, the assignments of
\* episode_indices and num_episodes execute before the assignments of index
\* and size, in every schedule.
C12_EpisodesCommitBeforeIndex ==
    (episode_semantics /\ InsertCalled)
    => \A a \in EpisodeAssignments : \A b \in IndexAssignments : Ordered(a, b)

\* C13: index stays in [0, capacity) and each insert of n records sets it
\* to (old index + n) mod capacity, also for n > capacity.
C13_IndexAdvancesCircularly ==
    [][InsertStep
       => /\ result' = "ok"
          /\ 0 <= index' /\ index' < capacity
          /\ index' = (index + Len(records'["value"])) % capacity]_vars

\* C14: one insert of a batch with n > capacity records succeeds and leaves
\* in every slot the record written to it last in batch order: the last
\* capacity records of the batch.
C14_OversizedBatchSucceeds ==
    [][(InsertStep /\ Len(records'["value"]) > capacity)
       => /\ result' = "ok"
          /\ \A key \in Fields :
                \A j \in (Len(records'["value"]) - capacity + 1)..Len(records'["value"]) :
                   record_registry'[key][Destination(j)] = records'[key][j]]_vars

\* C15: with episode semantics 0 <= num_episodes <= capacity in every
\* reachable state, and in every insert the evicted-episode count is at most
\* the number of episodes tracked before the insert.
C15_NumEpisodesInRange ==
    [][episode_semantics
       => /\ 0 <= num_episodes /\ num_episodes <= capacity
          /\ 0 <= num_episodes' /\ num_episodes' <= capacity
          /\ InsertStep => Evicted <= num_episodes]_vars

\* C15 witness: with episode semantics, insert was called with a batch of
\* more than capacity records that holds terminal flags.
C15_Witness ==
    /\ episode_semantics /\ InsertCalled
    /\ Len(records["value"]) > capacity
    /\ ReduceSum(records["terminal"]) >= 1

\* C16: get_episodes on a buffer without episode semantics fails with
\* EpisodeTrackingDisabledError.
C16_DisabledEpisodesError ==
    (last_op = "get_episodes" /\ ~episode_semantics)
    => result = "EpisodeTrackingDisabledError"

\* C17: an insert whose fields have different leading lengths fails with
\* SchemaMismatchError and has no effect on storage, index, size,
\* episode_indices and num_episodes.
C17_MismatchedBatchHasNoEffect ==
    [][(last_op' = "insert" /\ Len(records'["terminal"]) # Len(records'["value"]))
       => /\ result' = "SchemaMismatchError"
          /\ bufvars' = bufvars]_vars

\* C18: get_records, get_episodes and read_records leave storage, index,
\* size, episode_indices and num_episodes unchanged, and read_records
\* returns for each field the stored values at the given indices, in the
\* order of those indices.
C18_ReadsDoNotMutate ==
    [][(last_op' \in {"read_records", "get_records", "get_episodes"})
       => /\ bufvars' = bufvars
          /\ last_op' = "read_records"
             => /\ result' = "ok"
                /\ \A key \in Fields :
                      out'[key] = [j \in DOMAIN arg' |-> record_registry[key][arg'[j]]]]_vars

\* The destination indices of the terminal-flagged batch entries, in batch order.
RECURSIVE TerminalDestinations(_)
TerminalDestinations(j) ==
    IF j = 0 THEN <<>>
    ELSE TerminalDestinations(j - 1)
         \o (IF records'["terminal"][j] = 1 THEN <<Destination(j)>> ELSE <<>>)

\* C19: an insert that evicts e tracked episodes and whose batch holds t
\* terminal flags leaves episode_indices[0 .. old - e) equal to the old
\* entries [e .. old), followed at [old - e .. old - e + t) by the
\* destination indices of the terminal batch entries in batch order.
\* Stated for batches of at most capacity records.
C19_ShiftThenAppend ==
    [][LET e == Evicted
           old == num_episodes
           n == Len(records'["value"])
           new == TerminalDestinations(n)
       IN  (episode_semantics /\ InsertStep /\ n <= capacity
              /\ e <= old /\ old - e + Len(new) <= capacity)
           => /\ result' = "ok"
              /\ \A j \in 0..(old - e - 1) : episode_indices'[j] = episode_indices[e + j]
              /\ \A j \in 1..Len(new) : episode_indices'[old - e + j - 1] = new[j]]_vars

\* C21: for an Exploration built with an epsilon_spec, pick returns for a
\* batch item the random action only if use_exploration is true and the
\* item's epsilon decision is true, and otherwise the non-explorative action
\* (sample_deterministic under "max-likelihood", else sample_stochastic),
\* whether use_exploration is a plain bool or a tensor.
C21_PickGatedByUseExploration ==
    pick_status = "returned"
    => /\ Len(picked_actions) = Len(epsilon_decisions)
       /\ \A j \in DOMAIN epsilon_decisions :
             picked_actions[j] =
                IF use_exploration.value /\ epsilon_decisions[j]
                THEN random_actions[j]
                ELSE IF non_explore_behavior = "max-likelihood"
                     THEN sample_deterministic[j]
                     ELSE sample_stochastic[j]
====
